---- MODULE Spec2Model ----
(***************************************************************************)
(* Cascading multi-provider CAD analysis orchestrator                      *)
(* (backend/app/cad/multi_model_analyzer.py).                              *)
(*                                                                         *)
(* One analyzer object (its configuration is chosen in Init) serves one    *)
(* request, entered either through analyze_with_auto_fallback or through   *)
(* comprehensive_analysis.  Every provider invocation is one step of the   *)
(* model: pc names the invocation that is pending, and the step            *)
(* "...Returns" draws the answer of the external API and runs the code     *)
(* that handles it, up to the next invocation.                             *)
(***************************************************************************)
EXTENDS Integers, Sequences, FiniteSets, TLC

\* Number of distinct canned response texts the external APIs may return.
MaxText == 2

\* The number of requests that run concurrently on one analyzer.
MaxRequests == 2

Texts == 1..MaxText

None == "None"

Range(s) == {s[i] : i \in DOMAIN s}

(***************************************************************************)
(* MODELS: the static catalogue.  Optional keys of the Python dict are     *)
(* optional fields of the record; Get is dict.get.                         *)
(***************************************************************************)
MODELS ==
  [m \in {"gemini-2.5-flash", "gemini-2.5-flash-lite",
          "google/gemini-2.0-flash-exp:free",
          "nvidia/nemotron-nano-12b-v2-vl:free",
          "qwen/qwen-2.5-vl-7b-instruct:free",
          "meta-llama/llama-3.3-70b-instruct:free",
          "google/gemma-3-27b-it:free",
          "openai/gpt-oss-20b:free",
          "deepseek/deepseek-r1",
          "qwen/qwen3-235b-a22b"} |->
     CASE m = "gemini-2.5-flash" ->
            [name |-> "Gemini 2.5 Flash", provider |-> "GEMINI_DIRECT",
             fallback_provider |-> "GEMINI_DIRECT",
             fallback_model |-> "gemini-2.5-flash-lite",
             capabilities |-> {"vision", "fast"},
             api_model |-> "gemini-2.5-flash"]
       [] m = "gemini-2.5-flash-lite" ->
            [name |-> "Gemini 2.5 Flash Lite", provider |-> "GEMINI_DIRECT",
             capabilities |-> {"vision", "fast", "lite"},
             api_model |-> "gemini-2.5-flash-lite"]
       [] m = "google/gemini-2.0-flash-exp:free" ->
            [name |-> "Gemini 2.0 Flash (OpenRouter)", provider |-> "OPENROUTER",
             capabilities |-> {"vision", "fast"}]
       [] m = "nvidia/nemotron-nano-12b-v2-vl:free" ->
            [name |-> "NVIDIA Nemotron Nano VL", provider |-> "OPENROUTER",
             capabilities |-> {"vision", "technical"}]
       [] m = "qwen/qwen-2.5-vl-7b-instruct:free" ->
            [name |-> "Qwen 2.5 VL 7B", provider |-> "OPENROUTER",
             capabilities |-> {"vision", "fast"}]
       [] m = "meta-llama/llama-3.3-70b-instruct:free" ->
            [name |-> "Llama 3.3 70B Instruct", provider |-> "OPENROUTER",
             capabilities |-> {"reasoning", "large_context"}]
       [] m = "google/gemma-3-27b-it:free" ->
            [name |-> "Gemma 3 27B IT", provider |-> "OPENROUTER",
             capabilities |-> {"reasoning", "fast"}]
       [] m = "openai/gpt-oss-20b:free" ->
            [name |-> "GPT OSS 20B", provider |-> "OPENROUTER",
             capabilities |-> {"reasoning"}]
       [] m = "deepseek/deepseek-r1" ->
            [name |-> "DeepSeek R1", provider |-> "OPENROUTER",
             capabilities |-> {"reasoning", "advanced"}]
       [] m = "qwen/qwen3-235b-a22b" ->
            [name |-> "Qwen 3 235B", provider |-> "OPENROUTER",
             capabilities |-> {"reasoning", "advanced"}]]

\* dict.get(key): the value, or None when the key is absent.
Get(d, k) == IF k \in DOMAIN d THEN d[k] ELSE None

\* dict.get(key, default)
GetOr(d, k, default) == IF k \in DOMAIN d THEN d[k] ELSE default

\* A model id a caller may pass that is not a key of MODELS.
UnknownIds == {"gpt-4o"}

ModelIds == DOMAIN MODELS \cup UnknownIds

\* The two model objects __init__ creates when the Google key works.
GeminiModelNames == {"gemini-2.5-flash", "gemini-2.5-flash-lite"}

\* The stage prompts of comprehensive_analysis, in dict (insertion) order.
stages == <<"stage_1_identification", "stage_2_system_overview",
            "stage_3_components", "stage_4_technical", "stage_5_quality">>


(***************************************************************************)
(* Values.  An exception is its class, the format of its message and the   *)
(* values formatted into it.  Messages of foreign exceptions are tuples of *)
(* characters, so that the substring tests of the code are computed.       *)
(***************************************************************************)
Err(cls, fmt, arg) == [cls |-> cls, fmt |-> fmt, arg |-> arg]

NoErr == Err("", "", <<>>)

Ok(t) == [kind |-> "ok", text |-> t, err |-> NoErr]

Raise(e) == [kind |-> "raise", text |-> 0, err |-> e]

\* provider_used = None.  A label is a tuple of the parts of the string;
\* the empty tuple is the value "not provider_used" holds of.
NoLabel == <<>>

\* class QuotaExceededError(Exception)
QuotaExceededError == "QuotaExceededError"

\* Python truthiness of Optional[bytes]: None and b"" are falsy.
Truthy(image_bytes) == image_bytes \notin {None, "empty"}

\* The image payloads a caller can pass / a file can hold.
FileContents == {"empty", "png", "corrupt"}

ImageValues == {None} \cup FileContents

\* str.lower() on the alphabet of the messages below.
LowerChar(c) == IF c = "Q" THEN "q" ELSE c

Lower(s) == [i \in DOMAIN s |-> LowerChar(s[i])]

\* Python's "sub in s" for strings.
IsSubstr(sub, s) ==
  \E i \in 1..(Len(s) - Len(sub) + 1) : SubSeq(s, i, i + Len(sub) - 1) = sub

\* Messages of the exceptions model.generate_content can raise:
\* "429 ...", "Quota exceeded ...", "500 ...".
ApiErrorMsgs ==
  { <<"4", "2", "9">>, <<"Q", "u", "o", "t", "a">>, <<"5", "0", "0">> }

\* Message of PIL's UnidentifiedImageError, "cannot identify image file
\* <_io.BytesIO object at 0x...>": it ends with the address of the buffer.
DecodeErrorMsgs ==
  { <<"i", "m", "g", "@", "7", "f", "1">>, <<"i", "m", "g", "@", "4", "2", "9">> }

\* What the environment can answer to one invocation of the direct client.
DirectEnv ==
  [t : {"text"}, text : Texts, msg : {<<>>}]
    \cup [t : {"error"}, text : {0}, msg : ApiErrorMsgs]
    \cup [t : {"decode"}, text : {0}, msg : DecodeErrorMsgs]

\* What the gateway can answer: a completion, an HTTP error status, or any
\* other failure (timeout after 60 s, connection error, malformed body).
GatewayEnv ==
  [t : {"text"}, text : Texts, msg : {<<>>}]
    \cup [t : {"status"}, text : {0}, msg : {<<"4", "2", "9">>, <<"5", "0", "0">>}]
    \cup [t : {"other"}, text : {0}, msg : {<<"t", "i", "m", "e", "o", "u", "t">>}]

VARIABLES
  gemini_models,       \* self.gemini_models: names of the model objects
  openrouter_api_key,  \* self.openrouter_api_key, or None
  entry,               \* the entry point the caller invoked, None before
  model_id,            \* the model_id argument
  image_bytes,         \* the image_bytes argument / the bytes read from the file
  pc,                  \* position of the request's control flow
  stage,               \* i of the stage loop (0 outside comprehensive_analysis)
  results,             \* the results dict, as its items in insertion order
  provider_used,       \* provider_used of comprehensive_analysis
  response,            \* (response, used_provider) of the last resolution
  attempts,            \* provider invocations of the current resolution
  netCalls,            \* outbound network calls made for the request
  resolutionLog,       \* stage of every analyze_with_auto_fallback invocation
  out,                 \* what the entry point returned or raised
  invocations,         \* provider client invocations made for the request
  firstLabel,          \* the label the resolution of stage 1 returned
  cancelled,           \* a cancellation of the request's task has been requested
  handed,              \* the document lists passed to index_documents
  index,               \* the units that reached the vector store
  indexRet,            \* what index_cad_analysis returned
  tasks                \* the concurrent requests on the analyzer, by request

vars == <<gemini_models, openrouter_api_key, entry, model_id, image_bytes, pc,
          stage, results, provider_used, response, attempts, netCalls,
          resolutionLog, out, invocations, firstLabel, cancelled, handed,
          index, indexRet, tasks>>

analyzer == <<gemini_models, openrouter_api_key>>

indexer == <<handed, index, indexRet>>

(***************************************************************************)
(* analyze_with_gemini_direct, given the answer env of the environment.    *)
(* Returns the outcome and the number of outbound network calls made.      *)
(***************************************************************************)
ClassifyDirect(error_msg) ==
  IF IsSubstr(<<"4", "2", "9">>, error_msg)
       \/ IsSubstr(<<"q", "u", "o", "t", "a">>, Lower(error_msg))
  THEN Err(QuotaExceededError, "Gemini quota exceeded: {}", error_msg)
  ELSE Err("Exception", "Gemini API error: {}", error_msg)

analyze_with_gemini_direct_Lenient(img, model_name, env) ==
  IF model_name \notin gemini_models
  THEN [res |-> Raise(Err(QuotaExceededError, "Gemini model {} not initialized",
                          <<model_name>>)),
        calls |-> 0]
  ELSE IF Truthy(img) /\ img = "corrupt"
  THEN [res |-> Raise(ClassifyDirect(env.msg)), calls |-> 0]
  ELSE IF env.t = "text"
  THEN [res |-> Ok(env.text), calls |-> 1]
  ELSE [res |-> Raise(ClassifyDirect(env.msg)), calls |-> 1]

analyze_with_gemini_direct(img, model_name, env) ==
  IF model_name \notin gemini_models
  THEN [res |-> Raise(Err("Exception", "Gemini model {} not initialized",
                          <<model_name>>)),
        calls |-> 0]
  ELSE IF Truthy(img) /\ img = "corrupt"
  THEN [res |-> Raise(ClassifyDirect(env.msg)), calls |-> 0]
  ELSE IF env.t = "text"
  THEN [res |-> Ok(env.text), calls |-> 1]
  ELSE [res |-> Raise(ClassifyDirect(env.msg)), calls |-> 1]

\* The answers the environment can give to this invocation.
DirectEnvFor(img) ==
  IF Truthy(img) /\ img = "corrupt"
  THEN {e \in DirectEnv : e.t = "decode"}
  ELSE {e \in DirectEnv : e.t # "decode"}

analyze_with_openrouter_Retry(img, gateway_model, env) ==
  IF env.t = "text"
  THEN [res |-> Ok(env.text), calls |-> 1]
  ELSE [res |-> Raise(Err("Exception", "OpenRouter failed: {}", env.msg)),
        calls |-> 2]

(***************************************************************************)
(* analyze_with_openrouter, given the answer env of the gateway.           *)
(***************************************************************************)
analyze_with_openrouter(img, gateway_model, env) ==
  IF env.t = "text"
  THEN [res |-> Ok(env.text), calls |-> 1]
  ELSE IF env.t = "status"
  THEN [res |-> Raise(Err("Exception", "OpenRouter error ({}): {}", env.msg)),
        calls |-> 1]
  ELSE [res |-> Raise(Err("Exception", "OpenRouter failed: {}", env.msg)),
        calls |-> 1]


\* asyncio.CancelledError, which is a BaseException and not an Exception.
CancelledError == Err("CancelledError", "", <<>>)

\* "except Exception" (lines 221, 262) catches e.
CaughtAsException(e) == e.cls # CancelledError.cls

\* "await client.post(...)" (line 215) in a task whose cancellation has been
\* requested: the call is aborted and CancelledError is thrown into the
\* coroutine, through the handlers of analyze_with_openrouter; otherwise the
\* client runs to its end.
AwaitOpenrouter(img, gateway_model, env) ==
  IF cancelled
  THEN [res |-> Raise(CancelledError), calls |-> 1]
  ELSE analyze_with_openrouter(img, gateway_model, env)

\* The concurrent requests, and a request that has not been made yet.
Requests == 1..MaxRequests

IdleTask == [model_id |-> None, pc |-> "idle", stage |-> 0, resolved |-> 0,
             inflight |-> {}]

(***************************************************************************)
(* The state after MultiModelCADAnalyzer.__init__: both Gemini model       *)
(* objects or none of them, and an OpenRouter key or none.                 *)
(***************************************************************************)
Init ==
  /\ gemini_models \in {{}, GeminiModelNames}
  /\ openrouter_api_key \in {None, "sk-or-key"}
  /\ entry = None
  /\ model_id = None
  /\ image_bytes = None
  /\ pc = "idle"
  /\ stage = 0
  /\ results = <<>>
  /\ provider_used = NoLabel
  /\ response = <<>>
  /\ attempts = <<>>
  /\ netCalls = 0
  /\ resolutionLog = <<>>
  /\ out = [kind |-> "none", value |-> <<>>, err |-> NoErr]
  /\ invocations = 0
  /\ firstLabel = NoLabel
  /\ cancelled = FALSE
  /\ handed = <<>>
  /\ index = <<>>
  /\ indexRet = "none"
  /\ tasks = [r \in Requests |-> IdleTask]

Returned(v) == [kind |-> "return", value |-> v, err |-> NoErr]

Raised(e) == [kind |-> "raise", value |-> <<>>, err |-> e]

\* One provider invocation, as recorded in attempts.
Attempt(role, provider, model, img, r) ==
  [role |-> role, provider |-> provider, model |-> model, image |-> img,
   res |-> r.res, calls |-> r.calls, net |-> r.calls > 0]

UsesCascade_All(model_info) == TRUE

\* Line 231: the models of the direct family get the cascade.
UsesCascade(model_info) == model_info.provider = "GEMINI_DIRECT"

BeginResolution_Sticky(m) ==
  IF m \notin DOMAIN MODELS
  THEN /\ pc' = "done"
       /\ out' = Raised(Err("ValueError", "Unknown model: {}", <<m>>))
  ELSE /\ pc' = IF pc = "stage_resolved" /\ "(fallback)" \in Range(response.label)
                THEN "gateway_fallback"
                ELSE IF UsesCascade(MODELS[m]) THEN "primary" ELSE "gateway"
       /\ out' = out

\* Lines 226-233 and 272-274 of analyze_with_auto_fallback: look the model
\* up and choose the first provider invocation.
BeginResolution(m) ==
  IF m \notin DOMAIN MODELS
  THEN /\ pc' = "done"
       /\ out' = Raised(Err("ValueError", "Unknown model: {}", <<m>>))
  ELSE /\ pc' = IF UsesCascade(MODELS[m]) THEN "primary" ELSE "gateway"
       /\ out' = out

\* analyze_with_auto_fallback returns (text, label) to its caller.
ReturnResolution(text, label) ==
  /\ response' = [text |-> text, label |-> label]
  /\ IF entry = "analyze_with_auto_fallback"
     THEN /\ pc' = "done"
          /\ out' = Returned([text |-> text, label |-> label])
     ELSE /\ pc' = "stage_resolved"
          /\ out' = out

RaiseResolution_Partial(e) ==
  /\ pc' = "done"
  /\ out' = IF entry = "comprehensive_analysis"
            THEN Returned([model_used |-> MODELS[model_id].name,
                           model_id |-> model_id,
                           provider_used |-> provider_used,
                           analysis_complete |-> FALSE,
                           stage_items |-> results])
            ELSE Raised(e)
  /\ response' = response

\* An exception leaves analyze_with_auto_fallback; comprehensive_analysis
\* does not catch it.
RaiseResolution(e) ==
  /\ pc' = "done"
  /\ out' = Raised(e)
  /\ response' = response

\* raise Exception("All Gemini sources exhausted (quota exceeded)")
ExhaustedError ==
  Err("Exception", "All Gemini sources exhausted (quota exceeded)", <<>>)

LastResort_Always ==
  /\ pc' = "gateway_fallback"
  /\ out' = out
  /\ response' = response

\* Lines 255-266: the last resort and the exhaustion of all fallbacks.
LastResort ==
  IF openrouter_api_key # None
  THEN /\ pc' = "gateway_fallback"
       /\ out' = out
       /\ response' = response
  ELSE RaiseResolution(ExhaustedError)

TriggersCascade_Any(err) == TRUE

\* Line 239: "except QuotaExceededError" is the handler that falls back.
TriggersCascade(err) == err.cls = QuotaExceededError

FallbackEligible_Never(fallback_model) == FALSE

\* Line 244: the fallback model is declared and its object exists.
FallbackEligible(fallback_model) ==
  fallback_model # None /\ fallback_model \in gemini_models

(***************************************************************************)
(* Entry point analyze_with_auto_fallback(image_bytes, prompt, model_id).  *)
(***************************************************************************)
analyze_with_auto_fallback(img, m) ==
  /\ pc = "idle"
  /\ entry' = "analyze_with_auto_fallback"
  /\ model_id' = m
  /\ image_bytes' = img
  /\ resolutionLog' = <<0>>
  /\ BeginResolution(m)
  /\ UNCHANGED <<analyzer, stage, results, provider_used, response, attempts,
                 netCalls, invocations, firstLabel, cancelled, indexer,
                 tasks>>

(***************************************************************************)
(* The primary attempt (lines 233-240, 268-270) and what follows it.       *)
(***************************************************************************)
PrimaryReturns ==
  /\ pc = "primary"
  /\ LET model_info == MODELS[model_id]
         api_model == GetOr(model_info, "api_model", "gemini-2.5-flash")
         fallback_model == Get(model_info, "fallback_model")
     IN \E env \in DirectEnvFor(image_bytes) :
          LET r == analyze_with_gemini_direct(image_bytes, api_model, env)
          IN /\ attempts' = Append(attempts,
                  Attempt("primary", "GEMINI_DIRECT", api_model, image_bytes, r))
             /\ netCalls' = netCalls + r.calls
             /\ IF r.res.kind = "ok"
                THEN ReturnResolution(r.res.text, <<"Google Studio", api_model>>)
                ELSE IF TriggersCascade(r.res.err)
                THEN IF FallbackEligible(fallback_model)
                     THEN /\ pc' = "fallback_model"
                          /\ UNCHANGED <<out, response>>
                     ELSE LastResort
                ELSE RaiseResolution(r.res.err)
  /\ invocations' = invocations + 1
  /\ UNCHANGED <<analyzer, entry, model_id, image_bytes, stage, results,
                 provider_used, resolutionLog, firstLabel, cancelled, indexer,
                 tasks>>

(***************************************************************************)
(* The same-family fallback attempt (lines 245-253).                       *)
(***************************************************************************)
FallbackReturns ==
  /\ pc = "fallback_model"
  /\ LET fallback_model == Get(MODELS[model_id], "fallback_model")
     IN \E env \in DirectEnvFor(image_bytes) :
          LET r == analyze_with_gemini_direct(image_bytes, fallback_model, env)
          IN /\ attempts' = Append(attempts,
                  Attempt("fallback_model", "GEMINI_DIRECT", fallback_model,
                          image_bytes, r))
             /\ netCalls' = netCalls + r.calls
             /\ IF r.res.kind = "ok"
                THEN ReturnResolution(r.res.text,
                       <<"Google Studio", fallback_model, "(fallback)">>)
                ELSE LastResort
  /\ invocations' = invocations + 1
  /\ UNCHANGED <<analyzer, entry, model_id, image_bytes, stage, results,
                 provider_used, resolutionLog, firstLabel, cancelled, indexer,
                 tasks>>

(***************************************************************************)
(* The gateway attempt of the cascade (lines 256-266).                     *)
(***************************************************************************)
GatewayFallbackReturns ==
  /\ pc = "gateway_fallback"
  /\ LET or_fallback == "google/gemini-2.0-flash-exp:free"
     IN \E env \in GatewayEnv :
          LET r == AwaitOpenrouter(image_bytes, or_fallback, env)
          IN /\ attempts' = Append(attempts,
                  Attempt("gateway_fallback", "OPENROUTER", or_fallback,
                          image_bytes, r))
             /\ netCalls' = netCalls + r.calls
             /\ IF r.res.kind = "ok"
                THEN ReturnResolution(r.res.text,
                       <<"OpenRouter Gemini", "(fallback)">>)
                ELSE IF CaughtAsException(r.res.err)
                THEN RaiseResolution(ExhaustedError)
                ELSE RaiseResolution(r.res.err)
  /\ invocations' = invocations + 1
  /\ UNCHANGED <<analyzer, entry, model_id, image_bytes, stage, results,
                 provider_used, resolutionLog, firstLabel, cancelled, indexer,
                 tasks>>

(***************************************************************************)
(* Models of other providers: OpenRouter directly (lines 272-275).         *)
(***************************************************************************)
GatewayReturns ==
  /\ pc = "gateway"
  /\ \E env \in GatewayEnv :
       LET r == AwaitOpenrouter(image_bytes, model_id, env)
       IN /\ attempts' = Append(attempts,
               Attempt("gateway", "OPENROUTER", model_id, image_bytes, r))
          /\ netCalls' = netCalls + r.calls
          /\ IF r.res.kind = "ok"
             THEN ReturnResolution(r.res.text, <<MODELS[model_id].name>>)
             ELSE RaiseResolution(r.res.err)
  /\ invocations' = invocations + 1
  /\ UNCHANGED <<analyzer, entry, model_id, image_bytes, stage, results,
                 provider_used, resolutionLog, firstLabel, cancelled, indexer,
                 tasks>>


(***************************************************************************)
(* Entry point comprehensive_analysis(png_path, model_id), lines 284-296   *)
(* and the first turn of the stage loop (lines 358-361).  png is what is   *)
(* at png_path: nothing, or the bytes of the file.                         *)
(***************************************************************************)
comprehensive_analysis(png, m) ==
  /\ pc = "idle"
  /\ entry' = "comprehensive_analysis"
  /\ model_id' = m
  /\ IF png = "missing"
     THEN /\ pc' = "done"
          /\ out' = Raised(Err("FileNotFoundError", "PNG not found: {}", <<>>))
          /\ UNCHANGED <<image_bytes, stage, resolutionLog>>
     ELSE IF m \notin DOMAIN MODELS \/ "vision" \notin MODELS[m].capabilities
     THEN /\ pc' = "done"
          /\ out' = Raised(Err("ValueError", "Model {} doesn't support vision",
                               <<m>>))
          /\ UNCHANGED <<image_bytes, stage, resolutionLog>>
     ELSE /\ image_bytes' = png
          /\ stage' = 1
          /\ resolutionLog' = <<1>>
          /\ BeginResolution(m)
  /\ UNCHANGED <<analyzer, results, provider_used, response, attempts, netCalls,
                 invocations, firstLabel, cancelled, indexer,
                 tasks>>

\* results[key] = value on a dict kept as its items in insertion order.
DictSet(d, key, value) ==
  IF \E i \in DOMAIN d : d[i].key = key
  THEN [i \in DOMAIN d |->
          IF d[i].key = key THEN [key |-> key, value |-> value] ELSE d[i]]
  ELSE Append(d, [key |-> key, value |-> value])

RecordProvider_Last(provider, used_provider) == used_provider

\* Lines 363-364: "if not provider_used: provider_used = used_provider".
RecordProvider(provider, used_provider) ==
  IF provider = NoLabel THEN used_provider ELSE provider

ResultDict_Answering(m, provider, items) ==
  [model_used |-> IF "(fallback)" \in Range(provider)
                  THEN provider[Len(provider) - 1] ELSE MODELS[m].name,
   model_id |-> m,
   provider_used |-> provider,
   analysis_complete |-> TRUE,
   stage_items |-> items]

\* Lines 369-375: the returned dict; stage_items are the items of **results.
ResultDict(m, provider, items) ==
  [model_used |-> MODELS[m].name,
   model_id |-> m,
   provider_used |-> provider,
   analysis_complete |-> TRUE,
   stage_items |-> items]

LoopContinues_Short(i) == i < Len(stages) - 1

\* Line 359: the for loop has a next item after item i.
LoopContinues(i) == i < Len(stages)

(***************************************************************************)
(* The stage loop after a resolution has returned (lines 359-375): record  *)
(* the stage, then resolve the next stage or return the result.            *)
(***************************************************************************)
StageLoop ==
  /\ pc = "stage_resolved"
  /\ results' = DictSet(results, stages[stage], response.text)
  /\ provider_used' = RecordProvider(provider_used, response.label)
  /\ firstLabel' = IF stage = 1 THEN response.label ELSE firstLabel
  /\ IF LoopContinues(stage)
     THEN /\ stage' = stage + 1
          /\ resolutionLog' = Append(resolutionLog, stage + 1)
          /\ attempts' = <<>>
          /\ BeginResolution(model_id)
     ELSE /\ pc' = "done"
          /\ out' = Returned(ResultDict(model_id, provider_used', results'))
          /\ UNCHANGED <<stage, resolutionLog, attempts>>
  /\ UNCHANGED <<analyzer, entry, model_id, image_bytes, response, netCalls,
                 invocations, cancelled, indexer,
                 tasks>>

\* A provider call of the request is in flight: the pending invocation has
\* got as far as its network call.
InFlight ==
  \/ pc \in {"gateway_fallback", "gateway"}
  \/ /\ pc \in {"primary", "fallback_model"}
     /\ gemini_models # {}
     /\ ~(Truthy(image_bytes) /\ image_bytes = "corrupt")

(***************************************************************************)
(* The cancellation of the request's task is requested while a provider    *)
(* call is in flight.  model.generate_content (lines 178-180) is a         *)
(* blocking call without a suspension point, so the request takes effect   *)
(* at the next "await client.post" (line 215) only.                        *)
(***************************************************************************)
Cancel ==
  /\ InFlight
  /\ ~cancelled
  /\ cancelled' = TRUE
  /\ UNCHANGED <<analyzer, entry, model_id, image_bytes, pc, stage, results,
                 provider_used, response, attempts, netCalls, resolutionLog,
                 out, invocations, firstLabel, indexer, tasks>>

(***************************************************************************)
(* RAGService.index_cad_analysis and RAGService.index_documents            *)
(* (backend/app/services/rag_service.py).                                  *)
(***************************************************************************)
\* The doc ids a caller passes; an id is the tuple of the parts of the string.
DocIds == {<<"doc-1">>}

\* The stage documents index_cad_analysis builds, in the order of its five
\* blocks: the key it looks up, the title of the text, 'analysis_stage'.
StageDocuments ==
  <<[key |-> "stage_1_identification", title |-> "CAD DOCUMENT IDENTIFICATION",
     analysis_stage |-> "identification"],
    [key |-> "stage_2_system_overview", title |-> "CAD SYSTEM OVERVIEW",
     analysis_stage |-> "system_overview"],
    [key |-> "stage_3_components", title |-> "CAD COMPONENT BREAKDOWN",
     analysis_stage |-> "components"],
    [key |-> "stage_4_technical", title |-> "CAD TECHNICAL CHARACTERISTICS",
     analysis_stage |-> "technical"],
    [key |-> "stage_5_quality", title |-> "CAD QUALITY & USABILITY",
     analysis_stage |-> "quality"]>>

\* "key in analysis_results" and analysis_results[key] for a stage key.
HasStage(analysis_results, key) ==
  \E i \in DOMAIN analysis_results.stage_items :
     analysis_results.stage_items[i].key = key

StageText(analysis_results, key) ==
  LET i == CHOOSE j \in DOMAIN analysis_results.stage_items :
                analysis_results.stage_items[j].key = key
  IN analysis_results.stage_items[i].value

\* Document(text=..., metadata={...}); the text is its title and its body.
Document(title, body, doc_id, source_type, analysis_stage, model_used) ==
  [text |-> [title |-> title, body |-> body],
   metadata |-> [doc_id |-> doc_id, file_type |-> "cad",
                 source_type |-> source_type,
                 analysis_stage |-> analysis_stage,
                 model_used |-> model_used]]

\* Lines 152-263 of rag_service.py: stage_documents before the indexing.
RECURSIVE StageDocs(_, _, _)
StageDocs(doc_id, analysis_results, n) ==
  IF n = 0 THEN <<>>
  ELSE LET d == StageDocuments[n]
       IN StageDocs(doc_id, analysis_results, n - 1)
          \o (IF HasStage(analysis_results, d.key)
              THEN <<Document(d.title, <<StageText(analysis_results, d.key)>>,
                              doc_id, "cad_analysis", d.analysis_stage,
                              analysis_results.model_used)>>
              ELSE <<>>)

SummaryDoc(doc_id, analysis_results) ==
  Document("CAD COMPLETE ANALYSIS",
           [n \in DOMAIN StageDocuments |->
              IF HasStage(analysis_results, StageDocuments[n].key)
              THEN StageText(analysis_results, StageDocuments[n].key)
              ELSE 0],
           doc_id, "cad_analysis_summary", "complete",
           analysis_results.model_used)

stage_documents(doc_id, analysis_results) ==
  Append(StageDocs(doc_id, analysis_results, Len(StageDocuments)),
         SummaryDoc(doc_id, analysis_results))

\* Lines 103-106: index_documents stamps its doc_id on every document.
StampDocId(documents, doc_id) ==
  [i \in DOMAIN documents |->
     [documents[i] EXCEPT !.metadata.doc_id = doc_id]]

\* Line 267: the doc_id index_cad_analysis passes to index_documents.
CadAnalysisDocId(doc_id) == doc_id \o <<"_cad_analysis">>

(***************************************************************************)
(* index_cad_analysis(doc_id, analysis_results, doc_name) on the result    *)
(* comprehensive_analysis returned.  stored tells whether the vector store *)
(* accepts the nodes (VectorStoreIndex raises otherwise, and               *)
(* index_cad_analysis returns False).                                      *)
(***************************************************************************)
index_cad_analysis(doc_id, stored) ==
  /\ pc = "done"
  /\ entry = "comprehensive_analysis"
  /\ out.kind = "return"
  /\ LET documents == StampDocId(stage_documents(doc_id, out.value),
                                 CadAnalysisDocId(doc_id))
     IN /\ handed' = Append(handed, documents)
        /\ index' = IF stored THEN index \o documents ELSE index
        /\ indexRet' = IF stored THEN "True" ELSE "False"
  /\ pc' = "indexed"
  /\ UNCHANGED <<analyzer, entry, model_id, image_bytes, stage, results,
                 provider_used, response, attempts, netCalls, resolutionLog,
                 out, invocations, firstLabel, cancelled, tasks>>

Next ==
  \/ \E img \in ImageValues, m \in ModelIds : analyze_with_auto_fallback(img, m)
  \/ \E png \in {"missing"} \cup FileContents, m \in ModelIds :
       comprehensive_analysis(png, m)
  \/ PrimaryReturns
  \/ FallbackReturns
  \/ GatewayFallbackReturns
  \/ GatewayReturns
  \/ StageLoop
  \/ Cancel
  \/ \E doc_id \in DocIds, stored \in BOOLEAN : index_cad_analysis(doc_id, stored)

Spec == Init /\ [][Next]_vars

(***************************************************************************)
(* Several comprehensive_analysis requests on one analyzer.  Each request  *)
(* is a coroutine of its own: tasks[r] is its position (the await it is    *)
(* suspended at), its stage, the number of resolutions that have returned  *)
(* and the provider client invocations it is awaiting.  The requests share *)
(* self.gemini_models and self.openrouter_api_key, which they only read.   *)
(***************************************************************************)
\* The vision models the concurrent requests ask for, one per cascade shape.
ConcModels ==
  {"gemini-2.5-flash", "gemini-2.5-flash-lite",
   "google/gemini-2.0-flash-exp:free"}

\* The image bytes of the concurrent requests.
ConcImage == "png"

Call(i, step) == [stage |-> i, role |-> step]

Dispatch_Race(calls, i, step) ==
  calls \cup {Call(i, step)}
        \cup (IF step = "primary" THEN {Call(i, "fallback_model")} ELSE {})

\* "await self.analyze_with_...(...)": the coroutine starts one client
\* invocation and is suspended until it returns (lines 234, 246, 258, 274).
Dispatch(calls, i, step) == calls \cup {Call(i, step)}

\* The awaited invocation has returned or raised.
Complete(calls, c) == calls \ {c}

\* Lines 231-233 and 272-274: the first invocation of a resolution.
FirstStep(m) == IF UsesCascade(MODELS[m]) THEN "primary" ELSE "gateway"

\* The request after the awaited invocation of its step has ended with res.
TaskResolved(t) ==
  [t EXCEPT !.pc = "stage_resolved", !.resolved = t.resolved + 1,
            !.inflight = Complete(t.inflight, Call(t.stage, t.pc))]

TaskRaised(t) ==
  [t EXCEPT !.pc = "done",
            !.inflight = Complete(t.inflight, Call(t.stage, t.pc))]

TaskGoes(t, step) ==
  [t EXCEPT !.pc = step,
            !.inflight = Dispatch(Complete(t.inflight, Call(t.stage, t.pc)),
                                  t.stage, step)]

\* Lines 255-266 for a concurrent request.
TaskLastResort(t) ==
  IF openrouter_api_key # None
  THEN TaskGoes(t, "gateway_fallback")
  ELSE TaskRaised(t)

\* Lines 234-253 and 268-270 for a concurrent request.
TaskAfterDirect(t, res) ==
  LET fallback_model == Get(MODELS[t.model_id], "fallback_model")
  IN IF res.kind = "ok" THEN TaskResolved(t)
     ELSE IF t.pc = "primary"
     THEN IF TriggersCascade(res.err)
          THEN IF FallbackEligible(fallback_model)
               THEN TaskGoes(t, "fallback_model")
               ELSE TaskLastResort(t)
          ELSE TaskRaised(t)
     ELSE TaskLastResort(t)

\* Lines 256-266 and 272-275 for a concurrent request.
TaskAfterGateway(t, res) ==
  IF res.kind = "ok" THEN TaskResolved(t) ELSE TaskRaised(t)

\* comprehensive_analysis(png_path, model_id) of request r up to the await
\* of the first invocation of stage 1 (lines 284-296, 358-361).
ConcRequest(r, m) ==
  /\ tasks[r].pc = "idle"
  /\ tasks' = [tasks EXCEPT ![r] =
                 [model_id |-> m, pc |-> FirstStep(m), stage |-> 1,
                  resolved |-> 0,
                  inflight |-> Dispatch({}, 1, FirstStep(m))]]
  /\ UNCHANGED <<analyzer, entry, model_id, image_bytes, pc, stage, results,
                 provider_used, response, attempts, netCalls, resolutionLog,
                 out, invocations, firstLabel, cancelled, indexer>>

\* The awaited analyze_with_gemini_direct of request r ends.
ConcDirectReturns(r) ==
  /\ tasks[r].pc \in {"primary", "fallback_model"}
  /\ Call(tasks[r].stage, tasks[r].pc) \in tasks[r].inflight
  /\ LET model_info == MODELS[tasks[r].model_id]
         model_name == IF tasks[r].pc = "primary"
                       THEN GetOr(model_info, "api_model", "gemini-2.5-flash")
                       ELSE Get(model_info, "fallback_model")
     IN \E env \in DirectEnvFor(ConcImage) :
          tasks' = [tasks EXCEPT ![r] =
                      TaskAfterDirect(tasks[r],
                        analyze_with_gemini_direct(ConcImage, model_name,
                                                   env).res)]
  /\ UNCHANGED <<analyzer, entry, model_id, image_bytes, pc, stage, results,
                 provider_used, response, attempts, netCalls, resolutionLog,
                 out, invocations, firstLabel, cancelled, indexer>>

\* The awaited analyze_with_openrouter of request r ends.
ConcGatewayReturns(r) ==
  /\ tasks[r].pc \in {"gateway_fallback", "gateway"}
  /\ Call(tasks[r].stage, tasks[r].pc) \in tasks[r].inflight
  /\ LET gateway_model == IF tasks[r].pc = "gateway"
                          THEN tasks[r].model_id
                          ELSE "google/gemini-2.0-flash-exp:free"
     IN \E env \in GatewayEnv :
          tasks' = [tasks EXCEPT ![r] =
                      TaskAfterGateway(tasks[r],
                        analyze_with_openrouter(ConcImage, gateway_model,
                                                env).res)]
  /\ UNCHANGED <<analyzer, entry, model_id, image_bytes, pc, stage, results,
                 provider_used, response, attempts, netCalls, resolutionLog,
                 out, invocations, firstLabel, cancelled, indexer>>

\* The stage loop of request r after a resolution has returned (lines
\* 359-375): the next stage's first invocation, or the return.
ConcStageLoop(r) ==
  /\ tasks[r].pc = "stage_resolved"
  /\ tasks' = [tasks EXCEPT ![r] =
       IF LoopContinues(tasks[r].stage)
       THEN [tasks[r] EXCEPT
               !.stage = tasks[r].stage + 1,
               !.pc = FirstStep(tasks[r].model_id),
               !.inflight = Dispatch(tasks[r].inflight, tasks[r].stage + 1,
                                     FirstStep(tasks[r].model_id))]
       ELSE [tasks[r] EXCEPT !.pc = "done"]]
  /\ UNCHANGED <<analyzer, entry, model_id, image_bytes, pc, stage, results,
                 provider_used, response, attempts, netCalls, resolutionLog,
                 out, invocations, firstLabel, cancelled, indexer>>

NextConc ==
  \/ \E r \in Requests, m \in ConcModels : ConcRequest(r, m)
  \/ \E r \in Requests : ConcDirectReturns(r)
  \/ \E r \in Requests : ConcGatewayReturns(r)
  \/ \E r \in Requests : ConcStageLoop(r)

SpecConc == Init /\ [][NextConc]_vars


(***************************************************************************)
(* Vocabulary of the properties.                                           *)
(***************************************************************************)
Known(m) == m \in DOMAIN MODELS

\* analyze_with_auto_fallback has been invoked for a direct-family model.
DirectResolution ==
  resolutionLog # <<>> /\ Known(model_id)
    /\ MODELS[model_id].provider = "GEMINI_DIRECT"

\* The current resolution has returned or raised.
ResolutionOver == pc \in {"done", "stage_resolved"}

IsQuota(a) == a.res.kind = "raise" /\ a.res.err.cls = QuotaExceededError

\* A failure of a provider call that is not a quota failure.
IsTransport(a) ==
  a.res.kind = "raise"
    /\ a.res.err.fmt \in {"Gemini API error: {}", "OpenRouter error ({}): {}",
                          "OpenRouter failed: {}"}

IsExhausted(e) == e.fmt = "All Gemini sources exhausted (quota exceeded)"

\* The targets of the cascade of a direct-family model, in the fixed order;
\* a model that declares no fallback model has no such target.
CascadeOrder(m) ==
  <<[role |-> "primary", provider |-> "GEMINI_DIRECT",
     model |-> MODELS[m].api_model]>>
  \o (IF "fallback_model" \in DOMAIN MODELS[m]
      THEN <<[role |-> "fallback_model", provider |-> "GEMINI_DIRECT",
              model |-> MODELS[m].fallback_model]>>
      ELSE <<>>)
  \o <<[role |-> "gateway_fallback", provider |-> "OPENROUTER",
        model |-> "google/gemini-2.0-flash-exp:free"]>>

Target(a) == [role |-> a.role, provider |-> a.provider, model |-> a.model]

\* C1: for a direct-family model the provider attempts of a resolution are
\* a prefix of the fixed order primary, same-family fallback, gateway
\* fallback; no target is attempted twice; an attempt is followed by another
\* one only if it failed; and after primary = Quota, fallback = Quota,
\* gateway = Success there were exactly 3 attempts and the resolution
\* returns the gateway's text under a label marked "(fallback)".
C1_CascadeOrder ==
  DirectResolution =>
    /\ Len(attempts) <= Len(CascadeOrder(model_id))
    /\ \A i \in DOMAIN attempts : Target(attempts[i]) = CascadeOrder(model_id)[i]
    /\ \A i, j \in DOMAIN attempts : i # j => Target(attempts[i]) # Target(attempts[j])
    /\ \A i \in 1..(Len(attempts) - 1) : attempts[i].res.kind = "raise"
    /\ ( /\ ResolutionOver
         /\ Len(attempts) >= 2
         /\ attempts[1].role = "primary" /\ IsQuota(attempts[1])
         /\ attempts[2].role = "fallback_model" /\ IsQuota(attempts[2])
         /\ attempts[Len(attempts)].role = "gateway_fallback"
         /\ attempts[Len(attempts)].res.kind = "ok" )
       => /\ Len(attempts) = 3
          /\ response.text = attempts[3].res.text
          /\ "(fallback)" \in Range(response.label)
          /\ entry = "analyze_with_auto_fallback" => out = Returned(response)

C1_Witness ==
  /\ DirectResolution /\ ResolutionOver
  /\ Len(attempts) = 3
  /\ IsQuota(attempts[1]) /\ IsQuota(attempts[2])
  /\ attempts[3].res.kind = "ok"
  /\ attempts[1].net /\ attempts[2].net /\ attempts[3].net

\* C2: when the primary attempt fails with a non-quota (Transport) failure,
\* the resolution has made exactly one provider call, neither the fallback
\* model nor the gateway is attempted, and the caller receives that very
\* failure.
C2_PrimaryTransportAborts ==
  ( /\ DirectResolution
    /\ attempts # <<>>
    /\ attempts[1].role = "primary" /\ IsTransport(attempts[1]) )
  => /\ Len(attempts) = 1
     /\ pc = "done"
     /\ out = Raised(attempts[1].res.err)

C2_Witness ==
  /\ DirectResolution /\ pc = "done"
  /\ Len(attempts) = 1 /\ IsTransport(attempts[1]) /\ attempts[1].net
  /\ openrouter_api_key # None
  /\ model_id = "gemini-2.5-flash"


\* C3: at every cascade step a Transport failure ends the cascade: it is the
\* last attempt of the resolution and the caller receives it verbatim; an
\* attempt that is followed by another one failed with Quota.
C3_TransportAbortsEveryStep ==
  DirectResolution =>
    /\ \A i \in DOMAIN attempts :
         IsTransport(attempts[i]) =>
           /\ i = Len(attempts)
           /\ pc = "done"
           /\ out = Raised(attempts[i].res.err)
    /\ \A i \in 1..(Len(attempts) - 1) : IsQuota(attempts[i])

\* C4: primary = Quota, fallback model = Quota and no gateway key: the
\* resolution ends with the exhaustion failure after exactly 2 provider
\* calls.
C4_ExhaustedAfterTwo ==
  ( /\ DirectResolution
    /\ openrouter_api_key = None
    /\ Len(attempts) >= 2
    /\ attempts[1].role = "primary" /\ IsQuota(attempts[1])
    /\ attempts[2].role = "fallback_model" /\ IsQuota(attempts[2]) )
  => /\ Len(attempts) = 2
     /\ pc = "done"
     /\ out = Raised(ExhaustedError)

C4_Witness ==
  /\ DirectResolution /\ pc = "done"
  /\ openrouter_api_key = None
  /\ Len(attempts) = 2
  /\ IsQuota(attempts[1]) /\ attempts[1].net
  /\ IsQuota(attempts[2]) /\ attempts[2].net
  /\ out.kind = "raise" /\ IsExhausted(out.err)

\* The classes of the other failures the entry points raise.
OtherErrorClasses ==
  {"Exception", QuotaExceededError, "ValueError", "FileNotFoundError"}

\* C5: the exhaustion failure is of a kind of its own and carries the
\* requested model_id and the number of provider attempts of the
\* resolution, and none of the quota messages of the attempts.
C5_ExhaustedCarriesModelAndCount ==
  (out.kind = "raise" /\ IsExhausted(out.err)) =>
    /\ out.err.cls \notin OtherErrorClasses
    /\ model_id \in Range(out.err.arg)
    /\ ToString(Len(attempts)) \in Range(out.err.arg)
    /\ \A i \in DOMAIN attempts :
         IsQuota(attempts[i]) => out.err.arg # attempts[i].res.err.arg

\* C6: no Quota failure reaches the caller as a Quota failure, and the
\* exhaustion failure is raised only when every attempted cascade step
\* failed with Quota (a step that is not declared, not available or not
\* configured is not attempted).
C6_QuotaAbsorbed ==
  /\ out.kind = "raise" => out.err.cls # QuotaExceededError
  /\ (out.kind = "raise" /\ IsExhausted(out.err)) =>
       \A i \in DOMAIN attempts : IsQuota(attempts[i])

\* analyze_with_auto_fallback has been invoked for a catalogue model of
\* another provider than the direct family.
GatewayResolution ==
  resolutionLog # <<>> /\ Known(model_id)
    /\ MODELS[model_id].provider # "GEMINI_DIRECT"

\* C7: a catalogue model that is not of the direct family is resolved by
\* exactly one gateway call with that model_id: success returns the text
\* labelled with the display name of the model, a failure is raised with no
\* other attempt.
C7_GatewayOnce ==
  GatewayResolution =>
    /\ Len(attempts) <= 1
    /\ \A i \in DOMAIN attempts :
         /\ attempts[i].role = "gateway"
         /\ attempts[i].provider = "OPENROUTER"
         /\ attempts[i].model = model_id
         /\ attempts[i].net
    /\ ResolutionOver =>
         /\ Len(attempts) = 1
         /\ attempts[1].res.kind = "ok" =>
              response = [text |-> attempts[1].res.text,
                          label |-> <<MODELS[model_id].name>>]
         /\ attempts[1].res.kind = "raise" =>
              pc = "done" /\ out = Raised(attempts[1].res.err)

C7_Witness ==
  /\ GatewayResolution /\ pc = "done"
  /\ entry = "analyze_with_auto_fallback"
  /\ Len(attempts) = 1 /\ attempts[1].res.kind = "raise"
  /\ netCalls = 1

IsUnknownModel(e) == e.cls = "ValueError" /\ e.fmt = "Unknown model: {}"

IsUnsupportedCapability(e) ==
  e.cls = "ValueError" /\ e.fmt = "Model {} doesn't support vision"

\* C8: for a model_id that is not in the catalogue both entry points (for
\* comprehensive_analysis: when the image file exists) fail with the
\* UnknownModel error, which is not the UnsupportedCapability error, and
\* make no provider call.
C8_UnknownModel ==
  (entry # None /\ ~Known(model_id) /\ out.err.cls # "FileNotFoundError") =>
    /\ pc = "done"
    /\ out.kind = "raise" /\ IsUnknownModel(out.err)
    /\ ~IsUnsupportedCapability(out.err)
    /\ attempts = <<>> /\ netCalls = 0

\* C9: a request with an image for a catalogue model without the vision
\* capability fails with UnsupportedCapability before any provider call, on
\* comprehensive_analysis (the image file exists) and on
\* analyze_with_auto_fallback (image bytes are passed).
C9_UnsupportedCapability ==
  ( /\ entry # None /\ Known(model_id)
    /\ "vision" \notin MODELS[model_id].capabilities
    /\ entry = "analyze_with_auto_fallback" => Truthy(image_bytes)
    /\ entry = "comprehensive_analysis" => out.err.cls # "FileNotFoundError" )
  => /\ attempts = <<>> /\ netCalls = 0
     /\ pc = "done" => (out.kind = "raise" /\ IsUnsupportedCapability(out.err))

\* C10: a result with analysis_complete = true holds exactly one text per
\* stage, in the declared order of the five stages, and every stage was
\* resolved exactly once, in that order.
C10_CompleteResult ==
  ( /\ entry = "comprehensive_analysis"
    /\ out.kind = "return"
    /\ out.value.analysis_complete )
  => /\ Len(out.value.stage_items) = 5
     /\ [i \in DOMAIN out.value.stage_items |-> out.value.stage_items[i].key]
          = stages
     /\ resolutionLog = <<1, 2, 3, 4, 5>>

C10_Witness ==
  /\ entry = "comprehensive_analysis"
  /\ out.kind = "return" /\ out.value.analysis_complete
  /\ netCalls > 5


Last(seq) == seq[Len(seq)]

\* The resolution of the current stage of comprehensive_analysis has failed
\* terminally: its last provider attempt failed and no other one is pending.
StageFailed ==
  /\ entry = "comprehensive_analysis"
  /\ pc \in {"done", "indexed"}
  /\ attempts # <<>>
  /\ Last(attempts).res.kind = "raise"

\* C11: when the resolution of a stage k fails terminally, the pipeline
\* raises: no result object is returned, no later stage has been started,
\* and nothing is handed to the indexing collaborator.
C11_PipelineAtomic ==
  StageFailed =>
    /\ pc = "done"
    /\ out.kind = "raise" /\ out.value = <<>>
    /\ Len(resolutionLog) = stage /\ Last(resolutionLog) = stage
    /\ Len(results) = stage - 1
    /\ handed = <<>> /\ index = <<>> /\ indexRet = "none"

C11_Witness ==
  /\ StageFailed
  /\ stage = 3 /\ Len(results) = 2
  /\ out.kind = "raise"

\* C12: provider_used is the label the resolution of stage 1 returned, from
\* the moment stage 1 is recorded on, whatever the later resolutions return,
\* and it is the provider_used of the returned result.
C12_ProvenanceStable ==
  entry = "comprehensive_analysis" =>
    /\ provider_used = firstLabel
    /\ Len(results) >= 1 => firstLabel # NoLabel
    /\ out.kind = "return" => out.value.provider_used = firstLabel

C12_Witness ==
  /\ entry = "comprehensive_analysis"
  /\ out.kind = "return"
  /\ firstLabel = <<"Google Studio", "gemini-2.5-flash">>
  /\ response.label = <<"OpenRouter Gemini", "(fallback)">>
  /\ Len(attempts) = 3

\* C13: every request has at most one provider call in flight, the call of
\* the cascade step it is at, for the stage that follows the resolutions
\* that have returned; between two resolutions and after the end none is in
\* flight.  This holds for each of the requests running concurrently.
C13_OneCallInFlight ==
  \A r \in Requests :
    /\ Cardinality(tasks[r].inflight) <= 1
    /\ \A c \in tasks[r].inflight :
         /\ c.role = tasks[r].pc
         /\ c.stage = tasks[r].stage
         /\ c.stage = tasks[r].resolved + 1
    /\ tasks[r].pc \in {"idle", "stage_resolved", "done"}
         => tasks[r].inflight = {}

C13_Witness ==
  /\ tasks[1].inflight = {Call(3, "gateway_fallback")}
  /\ tasks[2].inflight = {Call(5, "fallback_model")}
  /\ tasks[1].resolved = 2 /\ tasks[2].resolved = 4

\* C14: once the cancellation has been requested while a provider call is
\* in flight, every provider invocation that ends is an aborted one that
\* raises the cancellation to the caller, no stage is started and no result
\* is returned.
C14_CancellationUnwinds ==
  [][cancelled =>
       /\ invocations' # invocations =>
            /\ Last(attempts').res.err = CancelledError
            /\ out' = Raised(CancelledError)
       /\ resolutionLog' = resolutionLog
       /\ out'.kind # "return"]_vars

\* The messages of the responses that indicate rate or quota exhaustion.
QuotaResponses == { <<"4", "2", "9">>, <<"Q", "u", "o", "t", "a">> }

\* C15: a failure of the direct provider is a Quota failure exactly when the
\* response of the API indicates rate or quota exhaustion; a failure to
\* decode the image is never a Quota failure.
C15_DirectClassification ==
  \A i \in DOMAIN attempts :
    (attempts[i].provider = "GEMINI_DIRECT" /\ attempts[i].res.kind = "raise")
    => /\ IsQuota(attempts[i]) <=>
            (attempts[i].calls = 1 /\ attempts[i].res.err.arg \in QuotaResponses)
       /\ attempts[i].res.err.arg \in DecodeErrorMsgs => ~IsQuota(attempts[i])

\* C16: an invocation of a provider client makes at most one outbound
\* network call, exactly one unless it fails before the dispatch (model
\* object missing, image not decodable); a failed call is not repeated
\* inside the client.
C16_NoRetryInClient ==
  /\ \A i \in DOMAIN attempts :
       /\ attempts[i].calls \in {0, 1}
       /\ attempts[i].calls = 0 =>
            /\ attempts[i].provider = "GEMINI_DIRECT"
            /\ attempts[i].res.kind = "raise"
            /\ \/ attempts[i].model \notin gemini_models
               \/ attempts[i].image = "corrupt"
  /\ netCalls <= invocations

C16_Witness ==
  /\ pc = "done"
  /\ entry = "analyze_with_auto_fallback"
  /\ Len(attempts) = 3
  /\ \A i \in 1..3 : attempts[i].res.kind = "raise" /\ attempts[i].calls = 1
  /\ netCalls = 3 /\ invocations = 3

\* C16 as stated: every invocation of a provider client performs one
\* outbound network call.
C16_OneCallPerInvocation ==
  /\ \A i \in DOMAIN attempts : attempts[i].calls = 1
  /\ netCalls = invocations

\* C17: the gateway fallback is attempted at most once per resolution, and
\* only after the primary failed with Quota, the fallback model failed with
\* Quota or was skipped, and with a gateway key configured.
C17_GatewayFallbackGuard ==
  /\ Cardinality({i \in DOMAIN attempts :
                    attempts[i].role = "gateway_fallback"}) <= 1
  /\ (pc = "gateway_fallback"
        \/ \E i \in DOMAIN attempts : attempts[i].role = "gateway_fallback")
     => /\ openrouter_api_key # None
        /\ attempts[1].role = "primary" /\ IsQuota(attempts[1])
        /\ \A i \in DOMAIN attempts :
             attempts[i].role = "fallback_model" => IsQuota(attempts[i])

\* C18: index_cad_analysis hands index_documents, in one call, one unit per
\* stage in stage order and one summary unit, and every unit reaches the
\* index with the caller's doc_id, its stage and the result's model_used.
C18_IndexedUnits ==
  indexRet = "True" =>
    /\ Len(handed) = 1
    /\ Len(handed[1]) = 6
    /\ [i \in 1..6 |-> handed[1][i].metadata.analysis_stage]
         = <<"identification", "system_overview", "components", "technical",
             "quality", "complete">>
    /\ Len(index) = 6
    /\ \A i \in DOMAIN index :
         /\ index[i].metadata.doc_id \in DocIds
         /\ index[i].metadata.analysis_stage = handed[1][i].metadata.analysis_stage
         /\ index[i].metadata.model_used = out.value.model_used

\* The first target of the resolution of the requested model.
FirstTarget(m) ==
  IF MODELS[m].provider = "GEMINI_DIRECT"
  THEN [role |-> "primary", provider |-> "GEMINI_DIRECT",
        model |-> MODELS[m].api_model]
  ELSE [role |-> "gateway", provider |-> "OPENROUTER", model |-> m]

\* C19: every stage of comprehensive_analysis is resolved with the requested
\* model_id and the image bytes read before stage 1, its first attempt is
\* the primary model of model_id, and a run that completes has made between
\* 5 and 15 provider calls.
C19_StagesIndependent ==
  (entry = "comprehensive_analysis" /\ resolutionLog # <<>>) =>
    /\ attempts # <<>> => Target(attempts[1]) = FirstTarget(model_id)
    /\ \A i \in DOMAIN attempts : attempts[i].image = image_bytes
    /\ out.kind = "return" =>
         /\ invocations >= 5 /\ invocations <= 15
         /\ netCalls >= 5 /\ netCalls <= 15

C19_Witness ==
  /\ entry = "comprehensive_analysis"
  /\ stage = 5 /\ Len(attempts) = 1
  /\ attempts[1].role = "primary"
  /\ "(fallback)" \in Range(provider_used)
  /\ invocations = 13

\* C20: the model_used and model_id of a returned result are the display
\* name and the id of the requested model, whichever cascade step answered,
\* and every unit index_cad_analysis hands over carries that model_used.
C20_ModelUsedIsRequested ==
  (entry = "comprehensive_analysis" /\ out.kind = "return") =>
    /\ out.value.model_used = MODELS[model_id].name
    /\ out.value.model_id = model_id
    /\ \A c \in DOMAIN handed : \A i \in DOMAIN handed[c] :
         handed[c][i].metadata.model_used = MODELS[model_id].name
    /\ \A i \in DOMAIN index :
         index[i].metadata.model_used = MODELS[model_id].name

C20_Witness ==
  /\ entry = "comprehensive_analysis"
  /\ indexRet = "True" /\ Len(index) = 6
  /\ invocations = 15
  /\ out.value.provider_used = <<"OpenRouter Gemini", "(fallback)">>
  /\ out.value.model_used = "Gemini 2.5 Flash"

\* A resolution for a direct-family model whose primary model object is
\* missing from self.gemini_models.
PrimaryUnavailable ==
  /\ DirectResolution
  /\ GetOr(MODELS[model_id], "api_model", "gemini-2.5-flash") \notin gemini_models

\* C21: when the primary model object is not initialised, the resolution
\* for a direct-family model fails at its first attempt with the non-quota
\* "not initialized" failure, which is surfaced as it is, after zero network
\* calls; neither the fallback model nor the gateway is attempted, with or
\* without a gateway key.
C21_PrimaryUnavailableAborts ==
  PrimaryUnavailable =>
    /\ pc \in {"primary", "done"}
    /\ netCalls = 0
    /\ \A i \in DOMAIN attempts : attempts[i].role = "primary"
    /\ attempts # <<>> =>
         /\ Len(attempts) = 1
         /\ attempts[1].calls = 0
         /\ attempts[1].res.kind = "raise"
         /\ ~IsQuota(attempts[1])
         /\ attempts[1].res.err.fmt = "Gemini model {} not initialized"
         /\ pc = "done"
         /\ out = Raised(attempts[1].res.err)

C21_Witness ==
  /\ PrimaryUnavailable
  /\ entry = "analyze_with_auto_fallback"
  /\ model_id = "gemini-2.5-flash"
  /\ openrouter_api_key # None
  /\ pc = "done"
  /\ Len(attempts) = 1
  /\ out.kind = "raise"
  /\ out.err.fmt = "Gemini model {} not initialized"

====
